---- MODULE Spec2Model ----
(***************************************************************************)
(* Telemetry microservice: the SQS queue with its dead-letter queue, the   *)
(* Lambda event source mapping, the sqsHandler batch loop and the DynamoDB *)
(* table it writes to.                                                     *)
(***************************************************************************)
EXTENDS Integers, Sequences, FiniteSets, TLC

\* ---------------------------------------------------------------- bounds
MaxMsgs == 2
MaxClock == 3
MaxRequests == 3
MaxConcBatch == 2
MaxConcClock == 2

\* ---------------------------------------------------- program constants
maxReceiveCount == 3
batchSize == 10

Msgs == 1..MaxMsgs

\* ------------------------------------------------------------ JSON values
JUndefined == [type |-> "undefined"]
JNull == [type |-> "null"]
JStr(s) == [type |-> "string", str |-> s]
JObj(f) == [type |-> "object", obj |-> f]

\* record.body as it travels on the queue: a text that is JSON or is not
Text(v) == [wire |-> "json", value |-> v]
Garbage == [wire |-> "text"]
NoBody == [wire |-> "none"]

BodyKeyed == [deviceId |-> JStr("d1"), creationTimeISO |-> JStr("c1"), temp |-> JStr("21")]
BodyKeyed2 == [deviceId |-> JStr("d2"), creationTimeISO |-> JStr("c1"), temp |-> JStr("22")]
BodyTemp == [temp |-> JStr("21")]
BodyOwnKeys == [siteId |-> JStr("s9"), timestamp |-> JStr("sender"),
                deviceId |-> JStr("d1"), creationTimeISO |-> JStr("c2")]
BodyEmpty == <<>>

\* the message bodies the environment may send
Wires ==
  { Garbage,
    Text(JNull),
    Text(JObj([siteId |-> JStr("s1"), body |-> JObj(BodyKeyed)])),
    Text(JObj([siteId |-> JStr("s1"), body |-> JObj(BodyKeyed2)])),
    Text(JObj([siteId |-> JStr("s1"), body |-> JObj(BodyTemp)])),
    Text(JObj([siteId |-> JStr("s1"), body |-> JObj(BodyOwnKeys)])),
    Text(JObj([siteId |-> JStr("s1"), body |-> JObj(BodyEmpty)])),
    Text(JObj([siteId |-> JStr(""), body |-> JObj(BodyKeyed)])),
    Text(JObj([body |-> JObj(BodyKeyed)])),
    Text(JObj([siteId |-> JStr("s2")])) }

\* ------------------------------------------------------------- the state
VARIABLES
  status,        \* per message: "none", "visible", "inflight", "deleted", "dlq"
  body,          \* per message: record.body, the text on the wire
  receiveCount,  \* per message: ApproximateReceiveCount kept by the queue
  clock,         \* the wall clock read by new Date()
  telemetryTable,\* the items of the table, each with the message it came from
  inv,           \* the invocation of sqsHandler: its event.Records and loop position
  puts,          \* per message: the PutCommands sent for it, over all deliveries
  stored,        \* per message: the PutCommands for it that the table accepted
  response,      \* the last answer of the submission endpoint
  conc           \* two invocations of sqsHandler running at the same time

vars == <<status, body, receiveCount, clock, telemetryTable, inv, puts, stored, response,
          conc>>

\* --------------------------------------------------------- the table keys
partitionKey == "deviceId"
sortKey == "creationTimeISO"

\* --------------------------------------------------------- pure functions
\* JSON.parse(record.body)
JSONparse(w) ==
  IF w.wire = "json" THEN [threw |-> FALSE, value |-> w.value]
  ELSE [threw |-> TRUE, value |-> JUndefined]

\* message.k : reading a property of null or undefined throws a TypeError
PropThrows(v) == v.type \in {"null", "undefined"}
Prop(v, k) ==
  IF v.type = "object" /\ k \in DOMAIN v.obj THEN v.obj[k] ELSE JUndefined

\* JavaScript truthiness, as used by the ! operator
Truthy(v) ==
  CASE v.type = "undefined" -> FALSE
    [] v.type = "null" -> FALSE
    [] v.type = "string" -> v.str # ""
    [] v.type = "object" -> TRUE

MissingSiteIdOnly(siteId, b) == ~Truthy(siteId)
\* if (!siteId || !body)
MissingRequiredFields(siteId, b) == ~Truthy(siteId) \/ ~Truthy(b)

\* new Date().toISOString()
toISOString(now) == "T" \o ToString(now)

\* ...body : the own enumerable properties of an object, nothing otherwise
Spread(v) == IF v.type = "object" THEN v.obj ELSE <<>>

ItemBodyLast(siteId, b, now) ==
  [k \in {"siteId"} \cup DOMAIN Spread(b) \cup {"timestamp"} |->
     IF k \in DOMAIN Spread(b) THEN Spread(b)[k]
     ELSE IF k = "timestamp" THEN JStr(toISOString(now))
     ELSE siteId]
\* params.Item : { siteId: siteId, ...body, timestamp: new Date().toISOString() }
Item(siteId, b, now) ==
  [k \in {"siteId"} \cup DOMAIN Spread(b) \cup {"timestamp"} |->
     IF k = "timestamp" THEN JStr(toISOString(now))
     ELSE IF k \in DOMAIN Spread(b) THEN Spread(b)[k]
     ELSE siteId]

\* the table accepts an item that carries both key attributes as non-empty strings
HasKey(item, k) == k \in DOMAIN item /\ item[k].type = "string" /\ item[k].str # ""
AcceptsItem(item) == HasKey(item, partitionKey) /\ HasKey(item, sortKey)
KeyOf(item) == <<item[partitionKey], item[sortKey]>>

PutItemClobber(tbl, item, m, n) == {[item |-> item, from |-> m, delivery |-> n]}
\* PutItem: an unconditional put replaces the item stored under the same key
PutItem(tbl, item, m, n) ==
  {e \in tbl : KeyOf(e.item) # KeyOf(item)} \cup {[item |-> item, from |-> m, delivery |-> n]}

SendOutcomeUncaught(accepted) == IF accepted THEN "Success" ELSE "Threw"
\* try { await docClient.send(...) } catch (error) { console.error(...) }
SendOutcome(accepted) == IF accepted THEN "Success" ELSE "StorageFailure"

\* one iteration of the for loop on one record, given the clock and whether
\* docClient.send resolves (accepted) or rejects
Iteration(w, now, accepted) ==
  LET parsed == JSONparse(w)
      message == parsed.value
      siteId == Prop(message, "siteId")
      b == Prop(message, "body")
  IN IF parsed.threw \/ PropThrows(message)
       THEN [outcome |-> "Threw", sent |-> FALSE, item |-> <<>>]
     ELSE IF MissingRequiredFields(siteId, b)
       THEN [outcome |-> "SkippedInvalid", sent |-> FALSE, item |-> <<>>]
     ELSE [outcome |-> SendOutcome(accepted), sent |-> TRUE, item |-> Item(siteId, b, now)]

Range(s) == {s[i] : i \in DOMAIN s}

TableAfterAbort(tbl, accepted, item, m, n) ==
  IF accepted THEN PutItem(tbl, item, m, n) ELSE {}
\* the table after one iteration: the only write of the loop is the put of
\* line 34; a skipped record, a rejected send or a throw leave the table alone
TableAfter(tbl, accepted, item, m, n) ==
  IF accepted THEN PutItem(tbl, item, m, n) ELSE tbl

AcknowledgedPerItem(Records, outcomes) ==
  {Records[i] : i \in {j \in DOMAIN outcomes : outcomes[j] \in {"Success", "SkippedInvalid"}}}
\* the messages the event source deletes when the invocation ends: sqsHandler
\* returns nothing, so it is the whole batch when the handler resolved and
\* none when it rejected
Acknowledged(Records, outcomes) ==
  IF "Threw" \in Range(outcomes) THEN {} ELSE Range(Records)
Min(a, b) == IF a < b THEN a ELSE b

\* the batches the event source may hand to one invocation: up to batchSize
\* different messages, in any order
Batches(S) ==
  {s \in UNION {[1..n -> S] : n \in 1..Min(batchSize, Cardinality(S))} :
     \A i, j \in DOMAIN s : i # j => s[i] # s[j]}

\* sqsHandler as a function of its batch: the results of iterations i, i+1, ...
\* given the answer of each send (acc) and the clock at each iteration (at);
\* the loop ends at the first iteration that throws
RECURSIVE Run(_, _, _, _, _)
Run(bodies, Records, acc, at, i) ==
  IF i > Len(Records) THEN <<>>
  ELSE LET r == Iteration(bodies[Records[i]], at[i], acc[i])
       IN IF r.outcome = "Threw" THEN <<r>>
          ELSE <<r>> \o Run(bodies, Records, acc, at, i + 1)

Idle == [state |-> "idle", Records |-> <<>>, pos |-> 1,
         outcomes |-> <<>>, accepted |-> <<>>, at |-> <<>>]

\* ------------------------------------------------ the submission endpoint
NoResponse == [statusCode |-> 0, body |-> <<>>]
RequestIds == {"r" \o ToString(i) : i \in 1..MaxRequests}
MessageId(m) == "m" \o ToString(m)

\* requestTemplates: the message body the integration sends for POST /write/{siteId}
requestTemplate(site, json) == Text(JObj([siteId |-> JStr(site), body |-> JObj(json)]))

\* integrationResponses: status 200 and the response template, a JSON text
\* given here by its fields
integrationResponse(requestId, messageId) ==
  [statusCode |-> 200,
   body |-> [message |-> "Message successfully sent to SQS",
             requestId |-> requestId,
             messageId |-> messageId]]

\* apiGatewayHandler: status 200 and JSON.stringify of its object
apiGatewayHandler(awsRequestId, now) ==
  [statusCode |-> 200,
   body |-> [message |-> "Telemetry data processed successfully",
             requestId |-> awsRequestId,
             timestamp |-> toISOString(now)]]

\* ----------------------------------------------------------------- Init
NoConc == [Records |-> <<>>, outcomes |-> <<>>, accepted |-> <<>>, at |-> <<>>,
           state |-> <<>>]

Start ==
  /\ status = [m \in Msgs |-> "none"]
  /\ body = [m \in Msgs |-> NoBody]
  /\ receiveCount = [m \in Msgs |-> 0]
  /\ clock = 0
  /\ telemetryTable = {}
  /\ inv = Idle
  /\ puts = [m \in Msgs |-> 0]
  /\ stored = [m \in Msgs |-> 0]
  /\ response = NoResponse

Init == Start /\ conc = NoConc

\* -------------------------------------------------------------- actions
\* the API integration (or any producer) sends a message to TelemetryQueue
SendMessage(m, w) ==
  /\ status[m] = "none"
  /\ status' = [status EXCEPT ![m] = "visible"]
  /\ body' = [body EXCEPT ![m] = w]
  /\ UNCHANGED <<receiveCount, clock, telemetryTable, inv, puts, stored, response, conc>>

DeliverableAlways(m) == TRUE
\* the redrive policy: a message is delivered at most maxReceiveCount times
Deliverable(m) == receiveCount[m] < maxReceiveCount

\* the event source receives a batch and invokes sqsHandler with it
ReceiveBatch(Records) ==
  /\ inv.state # "running"
  /\ \A i \in DOMAIN Records :
       status[Records[i]] = "visible" /\ Deliverable(Records[i])
  /\ status' = [m \in Msgs |-> IF m \in Range(Records) THEN "inflight" ELSE status[m]]
  /\ receiveCount' = [m \in Msgs |->
       IF m \in Range(Records) THEN receiveCount[m] + 1 ELSE receiveCount[m]]
  /\ inv' = [Idle EXCEPT !.state = "running", !.Records = Records]
  /\ UNCHANGED <<body, clock, telemetryTable, puts, stored, response, conc>>

\* one iteration of the loop of sqsHandler; a throw rejects the handler and
\* leaves the batch on the queue, the end of the loop resolves it and the
\* event source deletes the whole batch
HandleRecord(sinkUp) ==
  /\ inv.state = "running"
  /\ LET m == inv.Records[inv.pos]
         try == Iteration(body[m], clock, TRUE)
         accepted == try.sent /\ sinkUp /\ AcceptsItem(try.item)
         r == Iteration(body[m], clock, accepted)
         last == inv.pos = Len(inv.Records)
         threw == r.outcome = "Threw"
     IN /\ try.sent \/ sinkUp        \* the sink answers only a send
        /\ telemetryTable' = TableAfter(telemetryTable, accepted, r.item, m, receiveCount[m])
        /\ puts' = [puts EXCEPT ![m] = IF r.sent THEN @ + 1 ELSE @]
        /\ stored' = [stored EXCEPT ![m] = IF accepted THEN @ + 1 ELSE @]
        /\ inv' = [inv EXCEPT
             !.state = IF threw THEN "threw" ELSE IF last THEN "returned" ELSE "running",
             !.pos = IF threw THEN @ ELSE @ + 1,
             !.outcomes = Append(@, r.outcome),
             !.accepted = Append(@, accepted),
             !.at = Append(@, clock)]
        /\ status' = IF threw \/ last
             THEN [x \in Msgs |->
                    IF x \in Acknowledged(inv.Records, Append(inv.outcomes, r.outcome))
                      THEN "deleted" ELSE status[x]]
             ELSE status
  /\ UNCHANGED <<body, receiveCount, clock, response, conc>>

\* visibilityTimeout (60 s) passes: the messages of a batch whose invocation
\* failed, received together and not deleted, become visible again together
Hidden == {m \in Msgs : status[m] = "inflight" /\ inv.state # "running"}
VisibilityTimeout ==
  /\ Hidden # {}
  /\ clock < MaxClock
  /\ clock' = clock + 1
  /\ status' = [m \in Msgs |-> IF m \in Hidden THEN "visible" ELSE status[m]]
  /\ UNCHANGED <<body, receiveCount, telemetryTable, inv, puts, stored, response, conc>>

\* the redrive policy: a message received maxReceiveCount times goes to TelemetryDLQ
MoveToDLQ(m) ==
  /\ status[m] = "visible"
  /\ receiveCount[m] >= maxReceiveCount
  /\ status' = [status EXCEPT ![m] = "dlq"]
  /\ receiveCount' = [receiveCount EXCEPT ![m] = @ + 1]
  /\ UNCHANGED <<body, clock, telemetryTable, inv, puts, stored, response, conc>>

\* time passes
Tick ==
  /\ clock < MaxClock
  /\ clock' = clock + 1
  /\ UNCHANGED <<status, body, receiveCount, telemetryTable, inv, puts, stored, response, conc>>

Next ==
  \/ \E m \in Msgs, w \in Wires : SendMessage(m, w)
  \/ \E Records \in Batches(Msgs) : ReceiveBatch(Records)
  \/ \E sinkUp \in BOOLEAN : HandleRecord(sinkUp)
  \/ VisibilityTimeout
  \/ \E m \in Msgs : MoveToDLQ(m)
  \/ Tick

Spec == Init /\ [][Next]_vars

\* ------------------------------------------- the submission endpoint alone
\* POST /write/{siteId}: the integration sends the templated message to
\* TelemetryQueue and answers with the integration response
PostWrite(m, site, json, requestId) ==
  /\ status[m] = "none"
  /\ status' = [status EXCEPT ![m] = "visible"]
  /\ body' = [body EXCEPT ![m] = requestTemplate(site, json)]
  /\ response' = integrationResponse(requestId, MessageId(m))
  /\ UNCHANGED <<receiveCount, clock, telemetryTable, inv, puts, stored, conc>>

\* an invocation of apiGatewayHandler
InvokeApiGatewayHandler(awsRequestId) ==
  /\ response' = apiGatewayHandler(awsRequestId, clock)
  /\ UNCHANGED <<status, body, receiveCount, clock, telemetryTable, inv, puts, stored, conc>>

ApiNext ==
  \/ \E m \in Msgs, site \in {"s1", "s2"}, json \in {BodyKeyed, BodyTemp, BodyEmpty},
        requestId \in RequestIds : PostWrite(m, site, json, requestId)
  \/ \E awsRequestId \in RequestIds : InvokeApiGatewayHandler(awsRequestId)
  \/ Tick

ApiSpec == Init /\ [][ApiNext]_vars

\* --------------------------------------------------- concurrent invocations
\* two invocations of sqsHandler, each with its own batch, interleaved at the
\* await of line 34; they share the table and the clock only
ConcWires ==
  { Garbage,
    Text(JObj([siteId |-> JStr("s1"), body |-> JObj(BodyKeyed)])),
    Text(JObj([siteId |-> JStr("s1"), body |-> JObj(BodyKeyed2)])),
    Text(JObj([siteId |-> JStr("s1"), body |-> JObj(BodyOwnKeys)])),
    Text(JObj([siteId |-> JStr("s2")])) }

ConcBatches == UNION {[1..n -> ConcWires] : n \in 1..MaxConcBatch}

ConcInit ==
  /\ Start
  /\ \E A, B \in ConcBatches :
       \* different batches: no message is in both or twice in one
       /\ Cardinality(Range(A) \cup Range(B)) = Len(A) + Len(B)
       /\ conc = [Records |-> <<A, B>>, outcomes |-> <<<<>>, <<>>>>,
               accepted |-> <<<<>>, <<>>>>, at |-> <<<<>>, <<>>>>,
               state |-> <<"running", "running">>]

\* one iteration of the loop of invocation k
ConcStep(k, sinkUp) ==
  /\ conc.state[k] = "running"
  /\ LET i == Len(conc.outcomes[k]) + 1
         w == conc.Records[k][i]
         try == Iteration(w, clock, TRUE)
         accepted == try.sent /\ sinkUp /\ AcceptsItem(try.item)
         r == Iteration(w, clock, accepted)
         last == i = Len(conc.Records[k])
         threw == r.outcome = "Threw"
     IN /\ try.sent \/ sinkUp
        /\ telemetryTable' = TableAfter(telemetryTable, accepted, r.item, <<k, i>>, 1)
        /\ conc' = [conc EXCEPT
             !.outcomes[k] = Append(@, r.outcome),
             !.accepted[k] = Append(@, accepted),
             !.at[k] = Append(@, clock),
             !.state[k] = IF threw THEN "threw" ELSE IF last THEN "returned" ELSE "running"]
  /\ UNCHANGED <<status, body, receiveCount, clock, inv, puts, stored, response>>

ConcTick ==
  /\ clock < MaxConcClock
  /\ clock' = clock + 1
  /\ UNCHANGED <<status, body, receiveCount, telemetryTable, inv, puts, stored, response, conc>>

ConcNext ==
  \/ \E k \in {1, 2}, sinkUp \in BOOLEAN : ConcStep(k, sinkUp)
  \/ ConcTick

ConcSpec == ConcInit /\ [][ConcNext]_vars

\* invocation k run alone on table tbl with the answers and clock readings it
\* had: the table it leaves
RECURSIVE ApplyResults(_, _, _, _, _)
ApplyResults(tbl, k, results, acc, i) ==
  IF i > Len(results) THEN tbl
  ELSE ApplyResults(TableAfter(tbl, acc[i], results[i].item, <<k, i>>, 1),
                    k, results, acc, i + 1)

ConcRun(k) ==
  LET n == Len(conc.Records[k])
  IN Run(conc.Records[k], [j \in 1..n |-> j],
         [j \in 1..n |-> IF j <= Len(conc.accepted[k]) THEN conc.accepted[k][j] ELSE TRUE],
         [j \in 1..n |-> IF j <= Len(conc.at[k]) THEN conc.at[k][j] ELSE clock], 1)

\* the table after invocation k1 has run to its end and then invocation k2
SequentialTable(k1, k2) ==
  LET acc(k) == [j \in 1..Len(ConcRun(k)) |->
                  j <= Len(conc.accepted[k]) /\ conc.accepted[k][j]]
      t1 == ApplyResults({}, k1, ConcRun(k1), acc(k1), 1)
  IN ApplyResults(t1, k2, ConcRun(k2), acc(k2), 1)

TypeOK ==
  /\ status \in [Msgs -> {"none", "visible", "inflight", "deleted", "dlq"}]
  /\ clock \in 0..MaxClock
  /\ \A m \in Msgs : receiveCount[m] \in 0..(maxReceiveCount + 1)

\* ------------------------------------------------- vocabulary of the claims
Payload(w) == JSONparse(w).value
Decodes(w) == ~JSONparse(w).threw
IsMapping(w) == Decodes(w) /\ Payload(w).type = "object"
Present(w, k) == IsMapping(w) /\ k \in DOMAIN Payload(w).obj
NonEmptySiteId(w) ==
  Present(w, "siteId") /\ Payload(w).obj.siteId.type = "string" /\ Payload(w).obj.siteId.str # ""
NonEmptyBody(w) ==
  Present(w, "body") /\ Payload(w).obj.body.type = "object" /\ DOMAIN Payload(w).obj.body.obj # {}
ValidMessage(w) == NonEmptySiteId(w) /\ NonEmptyBody(w)
LacksField(w) == IsMapping(w) /\ (~Present(w, "siteId") \/ ~Present(w, "body"))
EmptyField(w) ==
  \/ Present(w, "siteId") /\ ~NonEmptySiteId(w)
  \/ Present(w, "body") /\ ~NonEmptyBody(w)
Malformed(w) == ~Decodes(w) \/ LacksField(w)

Processed == DOMAIN inv.outcomes
Ended == inv.state \in {"returned", "threw"}
\* the deliveries of a message so far: the move to the dead-letter queue counts
\* as a receive but delivers nothing
Deliveries(m) == IF status[m] = "dlq" THEN receiveCount[m] - 1 ELSE receiveCount[m]
RecordsOf(m) == {e \in telemetryTable : e.from = m}
\* pad a log of the invocation to the length of the batch
Pad(s, n, d) == [i \in 1..n |-> IF i <= Len(s) THEN s[i] ELSE d]

\* ------------------------------------------------------------------ claims

\* C1: every valid message (siteId and body present and non-empty) is
\* classified Success unless the sink is unavailable, and exactly one record
\* is written for that delivery, with the message's siteId and with every
\* top-level key of body carrying body's value.  Stated for the record the
\* loop has just finished.
C1_ValidMessageStored ==
  inv.outcomes # <<>> =>
    LET i == Len(inv.outcomes)
        m == inv.Records[i]
        w == body[m]
        it == Iteration(w, inv.at[i], TRUE).item
        sinkDown == AcceptsItem(it) /\ ~inv.accepted[i]
        recs == {e \in RecordsOf(m) : e.delivery = receiveCount[m]}
        b == Payload(w).obj.body.obj
    IN (ValidMessage(w) /\ ~sinkDown) =>
         /\ inv.outcomes[i] = "Success"
         /\ Cardinality(recs) = 1
         /\ \A e \in recs :
              /\ e.item["siteId"] = Payload(w).obj.siteId
              /\ \A k \in DOMAIN b : k \in DOMAIN e.item /\ e.item[k] = b[k]

C3_StorageFailureNotAcknowledged ==
  Ended => \A i \in Processed :
    inv.outcomes[i] = "StorageFailure" => status[inv.Records[i]] # "deleted"

\* C4: a message whose body cannot be decoded is classified SkippedInvalid
\* and the invocation goes on to the next message instead of failing.
C4_DecodeFailureNotFatal ==
  \A i \in Processed :
    ~Decodes(body[inv.Records[i]]) =>
      inv.outcomes[i] = "SkippedInvalid" /\ inv.state # "threw"

\* C5: failure isolation.  When an invocation has ended and the write of
\* the message at position k failed, the loop went on after k, and every
\* other position has the outcome and the written record it has in the run
\* in which the write at k succeeds (same batch, same clock readings, same
\* answers of the sink for the other messages).
C5_FailureIsolation ==
  Ended => \A k \in Processed :
    LET n == Len(inv.Records)
        at == Pad(inv.at, n, clock)
        acc == Pad(inv.accepted, n, TRUE)
        alt == Run(body, inv.Records, [acc EXCEPT ![k] = TRUE], at, 1)
    IN (Iteration(body[inv.Records[k]], at[k], TRUE).sent /\ ~inv.accepted[k]) =>
         /\ k < n => Len(inv.outcomes) > k
         /\ Len(alt) = Len(inv.outcomes)
         /\ \A j \in DOMAIN alt \ {k} :
              /\ j \in Processed /\ alt[j].outcome = inv.outcomes[j]
              /\ \A e \in RecordsOf(inv.Records[j]) :
                   e.delivery = receiveCount[inv.Records[j]] => e.item = alt[j].item

\* C5 witness: an invocation has returned in which one message's write
\* failed and a later message of the same batch was stored.
C5_Witness ==
  /\ inv.state = "returned"
  /\ \E k, j \in Processed :
       k < j /\ inv.outcomes[k] = "StorageFailure" /\ inv.outcomes[j] = "Success"

\* C6: a message whose storage write has failed in every delivery so far is
\* kept for redelivery until the redrive policy moves it to the dead-letter
\* queue: it is never deleted from the queue.
C6_AlwaysFailingNeverDeleted ==
  \A m \in Msgs :
    (receiveCount[m] >= 1 /\ puts[m] = receiveCount[m] /\ stored[m] = 0) =>
      status[m] # "deleted"

\* C7: a malformed message (undecodable, or a required field missing) is
\* acknowledged by the invocation that processes it: it is deleted when that
\* invocation ends, is received at most once and never reaches the
\* dead-letter queue.
C7_MalformedAcknowledgedOnce ==
  /\ \A m \in Msgs :
       (status[m] # "none" /\ Malformed(body[m])) =>
         receiveCount[m] <= 1 /\ status[m] # "dlq"
  /\ Ended => \A i \in Processed :
       Malformed(body[inv.Records[i]]) => status[inv.Records[i]] = "deleted"

\* C8: every message classified Success in an invocation is deleted from
\* the queue when that invocation ends, whatever happened to the other
\* messages of the batch.
C8_SuccessAcknowledged ==
  Ended => \A i \in Processed :
    inv.outcomes[i] = "Success" => status[inv.Records[i]] = "deleted"

\* C9: when a message whose record is in the table is delivered again and
\* its write succeeds again, the table afterwards holds two records of that
\* message, with different timestamps.
C9_RedeliveryAddsRecord ==
  [][\A m \in Msgs :
       (stored[m] >= 1 /\ stored'[m] = stored[m] + 1 /\ RecordsOf(m) # {}) =>
         \E e1, e2 \in {e \in telemetryTable' : e.from = m} :
           e1.item["timestamp"] # e2.item["timestamp"]]_vars

\* C10: a message whose siteId is present but empty, or whose body is
\* present but the empty mapping, is classified SkippedInvalid and no
\* PutCommand is sent for it.
C10_EmptyFieldSkipped ==
  /\ \A i \in Processed :
       EmptyField(body[inv.Records[i]]) => inv.outcomes[i] = "SkippedInvalid"
  /\ \A m \in Msgs : (status[m] # "none" /\ EmptyField(body[m])) => puts[m] = 0

\* C11: writes are keyed by (siteId, timestamp): the table never holds two
\* records with the same siteId and the same timestamp, the later write
\* having replaced the earlier one.
C11_OneRecordPerSiteIdTimestamp ==
  \A e1, e2 \in telemetryTable :
    (e1.item["siteId"] = e2.item["siteId"] /\ e1.item["timestamp"] = e2.item["timestamp"])
      => e1 = e2

\* C12: the timestamp of a stored record is the clock value read when its
\* message was processed, also when body has a timestamp key of its own:
\* every record of the table carries a clock value that has been reached,
\* and the record of a message processed by the invocation carries the clock
\* value of its iteration.
C12_TimestampIsProcessingTime ==
  /\ \A e \in telemetryTable :
       \E t \in 0..clock : e.item["timestamp"] = JStr(toISOString(t))
  /\ \A i \in Processed : \A e \in RecordsOf(inv.Records[i]) :
       e.delivery = receiveCount[inv.Records[i]] =>
         e.item["timestamp"] = JStr(toISOString(inv.at[i]))

\* C12 witness: the table holds the record of a message whose body carries
\* a timestamp key of its own.
C12_Witness ==
  \E e \in telemetryTable :
    /\ Present(body[e.from], "body")
    /\ "timestamp" \in DOMAIN Spread(Payload(body[e.from]).obj.body)

\* C13: no rollback.  A record the invocation has written is in the table,
\* unchanged, whatever happened to the later messages of the batch and after
\* the invocation has ended, unless a later successful put of the batch had
\* the same key.
C13_NoRollback ==
  \A i \in Processed :
    LET m == inv.Records[i]
        it == Iteration(body[m], inv.at[i], TRUE).item
        replaced == \E j \in Processed :
                      /\ j > i /\ inv.accepted[j]
                      /\ KeyOf(Iteration(body[inv.Records[j]], inv.at[j], TRUE).item) = KeyOf(it)
    IN (inv.accepted[i] /\ ~replaced) =>
         [item |-> it, from |-> m, delivery |-> Deliveries(m)] \in telemetryTable

\* C13 witness: the invocation has ended, a message was stored and a later
\* message of the same batch failed.
C13_Witness ==
  /\ Ended
  /\ \E i, j \in Processed :
       i < j /\ inv.accepted[i] /\ inv.outcomes[j] # "Success" /\ RecordsOf(inv.Records[i]) # {}

\* C17: acknowledgment is all-or-nothing per batch: once an invocation has
\* ended, either every message of its batch is deleted or none is.
C17_AckAllOrNothing ==
  Ended =>
    \/ \A m \in Range(inv.Records) : status[m] = "deleted"
    \/ \A m \in Range(inv.Records) : status[m] # "deleted"

\* C17 witness: an invocation has ended whose batch holds a stored message
\* and a message that failed.
C17_Witness ==
  /\ Ended
  /\ \E i, j \in Processed :
       inv.outcomes[i] = "Success" /\ inv.outcomes[j] \in {"StorageFailure", "Threw"}

\* C18: over the lifetime of a message there is at most one PutCommand per
\* delivery and at most maxReceiveCount PutCommands in all, and the table
\* never holds more than maxReceiveCount records that came from it.
C18_WriteAttemptsBounded ==
  \A m \in Msgs :
    /\ puts[m] <= Deliveries(m)
    /\ puts[m] <= maxReceiveCount
    /\ Cardinality(RecordsOf(m)) <= maxReceiveCount

\* C18 witness: a message has had maxReceiveCount PutCommands sent for it.
C18_Witness == \E m \in Msgs : puts[m] = maxReceiveCount

\* C19: every item sqsHandler puts carries the partition key and the sort
\* key of the table's key schema, so no put is rejected for a missing key.
C19_ItemCarriesTableKeys ==
  \A i \in Processed :
    LET r == Iteration(body[inv.Records[i]], inv.at[i], TRUE)
    IN r.sent => HasKey(r.item, partitionKey) /\ HasKey(r.item, sortKey)

\* C14: every message ends in one of three terminal states: acknowledged
\* after Success, acknowledged after SkippedInvalid, or dead-lettered by the
\* broker once its receive count exceeds maxReceiveCount.  As far as a run
\* can refute it: a message of a returned (acknowledged) batch was classified
\* Success or SkippedInvalid, and a dead-lettered message has a receive count
\* above maxReceiveCount.
C14_TerminalStates ==
  /\ \A m \in Msgs : status[m] = "dlq" => receiveCount[m] > maxReceiveCount
  /\ inv.state = "returned" =>
       \A i \in Processed :
         status[inv.Records[i]] = "deleted" =>
           inv.outcomes[i] \in {"Success", "SkippedInvalid"}

\* C15: every answer of the submission endpoint is HTTP 200 with a JSON
\* body whose fields are exactly message, requestId and timestamp.
C15_ResponseFields ==
  response # NoResponse =>
    /\ response.statusCode = 200
    /\ DOMAIN response.body = {"message", "requestId", "timestamp"}

\* C16: two concurrent invocations share nothing but the table.  When both
\* have ended and the records they wrote have pairwise different keys, each
\* message has the outcome it has when its invocation runs alone, and the
\* table is the one left by running the two invocations one after the other,
\* in either order.
ConcWritten == {<<k, i>> \in {1, 2} \X (1..MaxConcBatch + 1) :
                  i <= Len(conc.accepted[k]) /\ conc.accepted[k][i]}
ConcItem(x) == Iteration(conc.Records[x[1]][x[2]], conc.at[x[1]][x[2]], TRUE).item
ConcDistinctKeys ==
  \A x, y \in ConcWritten : x # y => KeyOf(ConcItem(x)) # KeyOf(ConcItem(y))
ConcEnded == \A k \in {1, 2} : conc.state[k] \in {"returned", "threw"}
====
